---- MODULE Spec2Model ----
(***************************************************************************)
(* The Navbar component of src/src/app/page.tsx as a state machine: its    *)
(* React state, the props it is rendered with, the effects' subscriptions  *)
(* and closures, the refocus timers, and the part of the browser it reads  *)
(* and writes (body style, scroll position, focus, viewport, panel DOM).   *)
(*                                                                         *)
(* One action is one browser event or one re-render by the parent: the     *)
(* handler, the render it causes and the effects of that render.  React    *)
(* runs the effects of a render caused by a discrete event (click, keydown)*)
(* before the event returns, and an effect's cleanup before the effect.    *)
(***************************************************************************)
EXTENDS Naturals, Sequences, FiniteSets, TLC

VARIABLES
    phase,                   \* "init" (rendered, no effect run), "mounted", "unmounted"
    \* props (NavbarProps, NavbarConfig)
    links, scrollThreshold, closeOnRouteChange, trapFocus,
    disableBodyScrollOnOpen, enableScrollSpy, onNavigate,
    \* React state
    isOpen, currentRoute, isScrolled, activeId,
    \* browser
    scrollY, bodyOverflow, bodyPaddingRight, scrollbarWidth, activeElement,
    hash, wide, panelInDom,
    \* subscriptions and closures held by the effects, timers
    scrollListeners, lockOriginal, escapeListeners, tabListeners, observers,
    pendingTimers,
    \* history (not read by any action): the body style at construction and
    \* before the latest open, the latest event, the link clicked last, the
    \* section whose observer delivered an intersecting entry last, what the
    \* latest link click navigated
    initialBody, preOpenBody, lastAction, lastClicked, lastIntersecting,
    lastNavigation,
    \* motion: whether there is a window (false when rendered on a server), the
    \* user's reduce-motion preference, config.animateDuration in milliseconds
    hasWindow, reduceMotion, animateDuration,
    \* the transition duration (seconds) in the props of the rendered elements:
    \* top bar, logo and inline links; backdrop and panel
    duration, panelDuration

props == <<links, scrollThreshold, closeOnRouteChange, trapFocus,
           disableBodyScrollOnOpen, enableScrollSpy, onNavigate>>
state == <<isOpen, currentRoute, isScrolled, activeId>>
browser == <<scrollY, bodyOverflow, bodyPaddingRight, scrollbarWidth,
             activeElement, hash, wide, panelInDom>>
subscriptions == <<scrollListeners, lockOriginal, escapeListeners,
                   tabListeners, observers, pendingTimers>>
history == <<initialBody, preOpenBody, lastAction, lastClicked, lastIntersecting,
             lastNavigation>>
motion == <<hasWindow, reduceMotion, animateDuration>>
rendered == <<duration, panelDuration>>
vars == <<phase, props, state, browser, subscriptions, history, motion, rendered>>

(***************************************************************************)
(* Bounds of the model.                                                    *)
(***************************************************************************)
MaxTimers == 2     \* refocus timers pending at once
MaxScrollY == 2    \* scroll positions 0..MaxScrollY
MaxEntries == 2    \* entries in one intersection observer callback

(***************************************************************************)
(* Inputs.                                                                 *)
(***************************************************************************)
Hero == [id |-> "hero", href |-> "#hero"]
About == [id |-> "about", href |-> "#about"]
Ghost == [id |-> "ghost", href |-> "/ghost"]   \* no element with this id

NavLink == {Hero, About, Ghost}
LinkLists == {<< >>, <<Hero, About>>, <<Hero, Ghost>>}
LinkIds == {l.id : l \in NavLink}
SectionElements == {"hero", "about"}           \* ids document.getElementById finds
Hashes == {"", "#about"}
Thresholds == 0..1
ScrollPositions == 0..MaxScrollY
ScrollbarWidths == {0, 15}
BodyStyles == {[overflow |-> "", paddingRight |-> ""],
               [overflow |-> "scroll", paddingRight |-> "8px"],
               [overflow |-> "hidden", paddingRight |-> "0px"]}
Entries == UNION {[1..n -> BOOLEAN] : n \in 1..MaxEntries}
AnimateDurations == {0, 300}                   \* milliseconds; 300 is the default

(***************************************************************************)
(* Pure helpers.                                                           *)
(***************************************************************************)
\* `${scrollbarWidth}px`
PxString(n) == ToString(n) \o "px"

\* A number of seconds as the fraction num/den (300 / 1000 is 0.3).
Zero == [num |-> 0, den |-> 1]
\* animateDuration / 1000
Seconds(ms) == [num |-> ms, den |-> 1000]

\* (mutant: matchMedia is consulted without the guard)
PrefersReducedMotionUnguarded == reduceMotion
\* typeof window !== "undefined" && window.matchMedia("(prefers-reduced-motion: reduce)").matches
PrefersReducedMotion == hasWindow /\ reduceMotion

\* prefersReducedMotion ? 0 : animateDuration / 1000
Duration == IF PrefersReducedMotion THEN Zero ELSE Seconds(animateDuration)

\* One render with isOpen = o: transition={{ duration }} on the top bar, the
\* logo and the inline links, and on backdrop and panel when they are
\* rendered.  While they leave, AnimatePresence keeps the elements of the
\* last render that had them, with the props of that render.
Rendered(o) ==
    /\ duration' = Duration
    /\ panelDuration' = IF o THEN Duration ELSE panelDuration

\* a || b || "" on strings: the first that is not empty
OrElse(a, b) == IF a # "" THEN a ELSE b

\* (mutant: the location hash is not consulted)
InitialRouteFirstLink(h, ls) == IF Len(ls) > 0 THEN ls[1].href ELSE ""
\* window.location.hash || links[0]?.href || ""
InitialRoute(h, ls) == OrElse(h, OrElse(IF Len(ls) > 0 THEN ls[1].href ELSE "", ""))

\* links.map((link) => link.id)
SectionIds(ls) == [i \in 1..Len(ls) |-> ls[i].id]

\* href.replace("#", ""): the first "#" removed
ReplaceHash(href) ==
    CASE href = "#hero" -> "hero"
      [] href = "#about" -> "about"
      [] OTHER -> href

\* (mutant: the tracked route stands in until scroll-spy has an active id)
ActiveLinkRouteFallback ==
    IF enableScrollSpy /\ activeId # "" THEN activeId ELSE currentRoute
\* enableScrollSpy ? activeScrollSpyId : currentRoute
ActiveLink == IF enableScrollSpy THEN activeId ELSE currentRoute

\* activeLink === link.href || activeLink === link.id
IsActive(link) == ActiveLink = link.href \/ ActiveLink = link.id

\* isOpen && disableBodyScrollOnOpen
Lock(o, d) == o /\ d

\* The panel's focusable elements in document order: the close button, then
\* one anchor per link (keyed by link.id).  What querySelectorAll returns.
PanelFocusables(ls) == <<"close">> \o SectionIds(ls)
PanelElements(ls) == {PanelFocusables(ls)[i] : i \in 1..Len(PanelFocusables(ls))}
IndexIn(el, seq) == CHOOSE i \in 1..Len(seq) : seq[i] = el

\* The ids among the links that have an element, in link order: one
\* IntersectionObserver each (the others map to null).
\* (mutant: an observer for every id, whether its element exists or not)
ObservedAll(ids) == ids
RECURSIVE Observed(_)
Observed(ids) ==
    IF ids = << >> THEN << >>
    ELSE IF Head(ids) \in SectionElements
         THEN <<Head(ids)>> \o Observed(Tail(ids))
         ELSE Observed(Tail(ids))

(***************************************************************************)
(* The effects of one commit.  o, d, ls, spy are the values of isOpen,     *)
(* disableBodyScrollOnOpen, links and enableScrollSpy in the render being  *)
(* committed; the unprimed variables are those of the previous commit.     *)
(***************************************************************************)
\* addEventListener in an effect, and the removeEventListener of its cleanup:
\* the cleanup removes the one listener its own run registered, the latest
Registered(regs, closure) == Append(regs, closure)
\* (mutant: the cleanup removes nothing)
NotRemoved(regs) == regs
Removed(regs) == IF regs = << >> THEN << >> ELSE SubSeq(regs, 1, Len(regs) - 1)

\* useLockBodyScroll: what the effect captures, writes, and its cleanup restores
LockedOverflow == "hidden"
LockedPaddingRight == PxString(scrollbarWidth)
\* (mutant: the style is captured after the lock has written it)
CapturedOverflowAfterWrite == LockedOverflow
CapturedOverflow == bodyOverflow
CapturedPaddingRight == bodyPaddingRight
RestoredOverflow == lockOriginal[1].overflow
\* (mutant: the cleanup clears the padding instead of restoring it)
RestoredPaddingRightCleared == ""
RestoredPaddingRight == lockOriginal[1].paddingRight

\* deps [lock]: the effect and its cleanup run only when lock changed
LockChanged(o, d) == Lock(o, d) # Lock(isOpen, disableBodyScrollOnOpen)

UseLockBodyScroll(o, d) ==
    IF ~LockChanged(o, d)
    THEN UNCHANGED <<bodyOverflow, bodyPaddingRight, lockOriginal>>
    ELSE IF Lock(o, d)
    THEN /\ lockOriginal' = <<[overflow |-> CapturedOverflow,
                               paddingRight |-> CapturedPaddingRight]>>
         /\ bodyOverflow' = LockedOverflow
         /\ bodyPaddingRight' = LockedPaddingRight
    ELSE /\ lockOriginal' = << >>
         /\ bodyOverflow' = RestoredOverflow
         /\ bodyPaddingRight' = RestoredPaddingRight

\* useFocusTrap, deps [isOpen, containerRef]: first and last focusable
\* element as queried when the effect runs
TrapClosure(ls) ==
    [first |-> PanelFocusables(ls)[1],
     last |-> PanelFocusables(ls)[Len(PanelFocusables(ls))]]

UseFocusTrapListeners(o, ls) ==
    IF o = isOpen THEN tabListeners
    ELSE IF o /\ trapFocus THEN Registered(Removed(tabListeners), TrapClosure(ls))
    ELSE Removed(tabListeners)

\* firstElement?.focus() when the trap effect runs for an opening; f is the
\* focused element the handler left
FocusAfterCommit(o, ls, f) ==
    IF o /\ ~isOpen /\ trapFocus THEN TrapClosure(ls).first ELSE f

\* (mutant: the effect runs at mount only, its listener keeps the first isOpen)
UseEscapeListenersStale(o) == escapeListeners
\* the Escape effect, deps [isOpen]: the listener closes over isOpen
UseEscapeListeners(o) ==
    IF o = isOpen THEN escapeListeners ELSE Registered(Removed(escapeListeners), o)

\* useScrollSpy, deps [sectionIds, enabled]: sectionIds is a new array in
\* every render, so every commit disconnects the observers and creates them anew
\* cleanup: observers.forEach((observer) => observer?.disconnect())
Disconnected(obs) == SelectSeq(obs, LAMBDA id : FALSE)
UseScrollSpyObservers(ls, spy) ==
    Disconnected(observers) \o (IF spy THEN Observed(SectionIds(ls)) ELSE << >>)

\* AnimatePresence keeps the panel in the document after isOpen turns false,
\* until the exit animation ends
Commit(o, d, ls, spy, f) ==
    /\ UseLockBodyScroll(o, d)
    /\ tabListeners' = UseFocusTrapListeners(o, ls)
    /\ activeElement' = FocusAfterCommit(o, ls, f)
    /\ escapeListeners' = UseEscapeListeners(o)
    /\ observers' = UseScrollSpyObservers(ls, spy)
    /\ panelInDom' = (o \/ panelInDom)
    /\ Rendered(o)
    /\ preOpenBody' = IF o /\ ~isOpen
                      THEN [overflow |-> bodyOverflow, paddingRight |-> bodyPaddingRight]
                      ELSE preOpenBody

NoNavigation == [callback |-> << >>, scrolled |-> << >>]

(***************************************************************************)
(* The state after the first render, before any effect has run: useState's *)
(* initial values, no subscription, nothing written to the browser.        *)
(***************************************************************************)
FirstRender ==
    /\ phase = "init"
    /\ isOpen = FALSE /\ currentRoute = "" /\ isScrolled = FALSE /\ activeId = ""
    /\ activeElement = "body" /\ panelInDom = FALSE
    /\ scrollListeners = << >> /\ lockOriginal = << >> /\ escapeListeners = << >>
    /\ tabListeners = << >> /\ observers = << >> /\ pendingTimers = 0
    /\ initialBody = [overflow |-> bodyOverflow, paddingRight |-> bodyPaddingRight]
    /\ preOpenBody = initialBody
    /\ lastAction = "" /\ lastClicked = "" /\ lastIntersecting = ""
    /\ lastNavigation = NoNavigation
    /\ duration = Duration /\ panelDuration = Duration

Init ==
    /\ links \in LinkLists
    /\ scrollThreshold \in Thresholds
    /\ closeOnRouteChange \in BOOLEAN
    /\ trapFocus \in BOOLEAN
    /\ disableBodyScrollOnOpen \in BOOLEAN
    /\ enableScrollSpy \in BOOLEAN
    /\ onNavigate \in BOOLEAN
    /\ scrollY \in ScrollPositions
    /\ \E b \in BodyStyles : bodyOverflow = b.overflow /\ bodyPaddingRight = b.paddingRight
    /\ scrollbarWidth \in ScrollbarWidths
    /\ hash \in Hashes
    /\ wide \in BOOLEAN
    /\ hasWindow \in BOOLEAN
    /\ reduceMotion \in BOOLEAN
    /\ animateDuration \in AnimateDurations
    /\ FirstRender

(***************************************************************************)
(* Mount: the effects of the first render, in hook order, and the render   *)
(* their state updates cause.                                              *)
(***************************************************************************)
\* (mutant: scrolled from the threshold on)
ScrolledFromThreshold(y, threshold) == y >= threshold
\* handleScroll: window.scrollY > threshold
Scrolled(y, threshold) == y > threshold

Mount ==
    /\ phase = "init" /\ hasWindow
    /\ phase' = "mounted"
    /\ isScrolled' = Scrolled(scrollY, scrollThreshold)
    /\ scrollListeners' = Registered(scrollListeners, scrollThreshold)
    /\ observers' = UseScrollSpyObservers(links, enableScrollSpy)
    /\ escapeListeners' = Registered(escapeListeners, isOpen)
    /\ currentRoute' = InitialRoute(hash, links)
    /\ lastAction' = "Mount"
    /\ UNCHANGED motion /\ Rendered(isOpen)
    /\ UNCHANGED <<props, isOpen, activeId, scrollY, bodyOverflow, bodyPaddingRight,
                   scrollbarWidth, activeElement, hash, wide, panelInDom,
                   lockOriginal, tabListeners, pendingTimers,
                   initialBody, preOpenBody, lastClicked, lastIntersecting,
                   lastNavigation>>

(***************************************************************************)
(* closeMenu: setIsOpen(false) and a 100 ms timer that focuses the toggle  *)
(* button.  f is the focused element the event itself left.                *)
(***************************************************************************)
CloseMenu(f) ==
    /\ pendingTimers < MaxTimers
    /\ isOpen' = FALSE
    /\ pendingTimers' = pendingTimers + 1
    /\ Commit(FALSE, disableBodyScrollOnOpen, links, enableScrollSpy, f)

\* A click moves focus to the clicked button or anchor in most browsers and
\* leaves it where it was in others.
ClickFocus(el) == {activeElement, el}

\* the hamburger button: onClick={() => setIsOpen(true)}.  It is displayed
\* below the breakpoint only, and lies under the backdrop while the panel is
\* in the document, where only the keyboard reaches it.
ToggleClick ==
    /\ phase = "mounted" /\ ~wide
    /\ panelInDom => activeElement = "toggle"
    /\ isOpen' = TRUE
    /\ \E f \in ClickFocus("toggle") :
           Commit(TRUE, disableBodyScrollOnOpen, links, enableScrollSpy, f)
    /\ lastAction' = "ToggleClick"
    /\ UNCHANGED motion
    /\ UNCHANGED <<phase, props, currentRoute, isScrolled, activeId, scrollY,
                   scrollbarWidth, hash, wide, scrollListeners, pendingTimers,
                   initialBody, lastClicked, lastIntersecting, lastNavigation>>

\* handleEscape on document keydown: if (e.key === "Escape" && isOpen) closeMenu()
EscapeCloses == \E i \in DOMAIN escapeListeners : escapeListeners[i]

EscapeKey ==
    /\ hasWindow
    /\ lastAction' = "EscapeKey"
    /\ UNCHANGED motion
    /\ IF EscapeCloses
       THEN /\ CloseMenu(activeElement)
            /\ UNCHANGED <<phase, props, currentRoute, isScrolled, activeId, scrollY,
                           scrollbarWidth, hash, wide, scrollListeners,
                           initialBody, lastClicked, lastIntersecting, lastNavigation>>
       ELSE UNCHANGED <<phase, props, state, browser, subscriptions,
                        initialBody, preOpenBody, lastClicked, lastIntersecting,
                        lastNavigation, rendered>>

\* handleBackdropClick: the backdrop is not focusable, a click on it leaves
\* no element focused
BackdropClick ==
    /\ phase = "mounted" /\ panelInDom
    /\ CloseMenu("body")
    /\ lastAction' = "BackdropClick"
    /\ UNCHANGED motion
    /\ UNCHANGED <<phase, props, currentRoute, isScrolled, activeId, scrollY,
                   scrollbarWidth, hash, wide, scrollListeners,
                   initialBody, lastClicked, lastIntersecting, lastNavigation>>

\* the panel's close button: onClick={closeMenu}
CloseButtonClick ==
    /\ phase = "mounted" /\ panelInDom
    /\ \E f \in ClickFocus("close") : CloseMenu(f)
    /\ lastAction' = "CloseButtonClick"
    /\ UNCHANGED motion
    /\ UNCHANGED <<phase, props, currentRoute, isScrolled, activeId, scrollY,
                   scrollbarWidth, hash, wide, scrollListeners,
                   initialBody, lastClicked, lastIntersecting, lastNavigation>>

(***************************************************************************)
(* handleLinkClick(link.href), from an inline (desktop) anchor or from an  *)
(* anchor of the panel.  The inline list is displayed from the breakpoint  *)
(* up, and lies under the backdrop while the panel is in the document.     *)
(***************************************************************************)
\* (mutant: the callback does not keep the handler from scrolling)
NavigationCallbackAndScroll(href) ==
    [callback |-> IF onNavigate THEN <<href>> ELSE << >>,
     scrolled |-> IF enableScrollSpy /\ ReplaceHash(href) \in SectionElements
                  THEN <<ReplaceHash(href)>> ELSE << >>]
\* onNavigate(href), else with scroll-spy getElementById(...)?.scrollIntoView
Navigation(href) ==
    [callback |-> IF onNavigate THEN <<href>> ELSE << >>,
     scrolled |-> IF ~onNavigate /\ enableScrollSpy /\ ReplaceHash(href) \in SectionElements
                  THEN <<ReplaceHash(href)>> ELSE << >>]

\* (variants: a handler that never closes the panel, one that always does)
LinkClickNeverCloses == FALSE
LinkClickAlwaysCloses == TRUE
\* if (closeOnRouteChange) closeMenu()
LinkClickCloses == closeOnRouteChange

LinkClick(link, inPanel) ==
    /\ phase = "mounted"
    /\ \E i \in 1..Len(links) : links[i] = link
    /\ IF inPanel THEN panelInDom
       ELSE wide /\ (panelInDom => activeElement = "outside")
    /\ currentRoute' = link.href
    /\ lastNavigation' = Navigation(link.href)
    /\ \E f \in ClickFocus(IF inPanel THEN link.id ELSE "outside") :
         IF LinkClickCloses
         THEN CloseMenu(f)
         ELSE /\ Commit(isOpen, disableBodyScrollOnOpen, links, enableScrollSpy, f)
              /\ UNCHANGED <<isOpen, pendingTimers>>
    /\ lastAction' = IF LinkClickCloses /\ isOpen THEN "LinkClickCloses" ELSE "LinkClick"
    /\ UNCHANGED motion
    /\ lastClicked' = link.id
    /\ UNCHANGED <<phase, props, isScrolled, activeId, scrollY, scrollbarWidth,
                   hash, wide, scrollListeners, initialBody, lastIntersecting>>

(***************************************************************************)
(* Tab or Shift+Tab pressed while an element of the panel has focus.  The  *)
(* panel's keydown listener (handleTab) wraps at the two elements it       *)
(* captured; anywhere else the browser moves focus to the neighbour in     *)
(* document order, which past either end of the panel is outside it.       *)
(***************************************************************************)
\* element.focus(): nothing happens when the element is no longer in the document
FocusOn(el) == IF el \in PanelElements(links) THEN el ELSE activeElement

DefaultTab(shift) ==
    LET fs == PanelFocusables(links)
        i == IndexIn(activeElement, fs)
    IN  IF shift THEN (IF i = 1 THEN "outside" ELSE fs[i - 1])
        ELSE (IF i = Len(fs) THEN "outside" ELSE fs[i + 1])

HandleTab(t, shift) ==
    IF shift
    THEN (IF activeElement = t.first THEN FocusOn(t.last) ELSE DefaultTab(shift))
    ELSE (IF activeElement = t.last THEN FocusOn(t.first) ELSE DefaultTab(shift))

TabKey(shift) ==
    /\ phase = "mounted" /\ panelInDom
    /\ activeElement \in PanelElements(links)
    /\ activeElement' = IF tabListeners # << >>
                        THEN HandleTab(tabListeners[1], shift)
                        ELSE DefaultTab(shift)
    /\ lastAction' = IF shift THEN "ShiftTabKey" ELSE "TabKey"
    /\ UNCHANGED <<motion, rendered>>
    /\ UNCHANGED <<phase, props, state, scrollY, bodyOverflow, bodyPaddingRight,
                   scrollbarWidth, hash, wide, panelInDom, subscriptions,
                   initialBody, preOpenBody, lastClicked, lastIntersecting,
                   lastNavigation>>

(***************************************************************************)
(* setTimeout(() => buttonRef.current?.focus(), 100) comes due.  The ref   *)
(* is null once the component is unmounted; focus() does nothing on a      *)
(* button that is not displayed (from the breakpoint up).                  *)
(***************************************************************************)
\* (mutant: the ref still holds the button after unmount)
RefocusTargetDetached ==
    IF ~wide THEN "toggle" ELSE activeElement
RefocusTarget ==
    IF phase = "mounted" /\ ~wide THEN "toggle" ELSE activeElement

TimerFire ==
    /\ pendingTimers > 0
    /\ pendingTimers' = pendingTimers - 1
    /\ activeElement' = RefocusTarget
    /\ lastAction' = "TimerFire"
    /\ UNCHANGED <<motion, rendered>>
    /\ UNCHANGED <<phase, props, state, scrollY, bodyOverflow, bodyPaddingRight,
                   scrollbarWidth, hash, wide, panelInDom, scrollListeners,
                   lockOriginal, escapeListeners, tabListeners, observers,
                   initialBody, preOpenBody, lastClicked, lastIntersecting,
                   lastNavigation>>

\* the exit animation ends: AnimatePresence removes backdrop and panel
ExitComplete ==
    /\ phase = "mounted" /\ ~isOpen /\ panelInDom
    /\ panelInDom' = FALSE
    /\ activeElement' = IF activeElement \in PanelElements(links)
                        THEN "body" ELSE activeElement
    /\ lastAction' = "ExitComplete"
    /\ UNCHANGED <<motion, rendered>>
    /\ UNCHANGED <<phase, props, state, scrollY, bodyOverflow, bodyPaddingRight,
                   scrollbarWidth, hash, wide, subscriptions,
                   initialBody, preOpenBody, lastClicked, lastIntersecting,
                   lastNavigation>>

\* the viewport crosses the breakpoint: `${breakpointClass}:hidden` hides the
\* toggle button from the breakpoint up, and a hidden element loses focus
Resize ==
    /\ hasWindow
    /\ wide' = ~wide
    /\ activeElement' = IF ~wide /\ activeElement = "toggle" THEN "body" ELSE activeElement
    /\ lastAction' = "Resize"
    /\ UNCHANGED <<motion, rendered>>
    /\ UNCHANGED <<phase, props, state, scrollY, bodyOverflow, bodyPaddingRight,
                   scrollbarWidth, hash, panelInDom, subscriptions,
                   initialBody, preOpenBody, lastClicked, lastIntersecting,
                   lastNavigation>>

(***************************************************************************)
(* useScrollState: the window scroll listener, and the effect re-run when  *)
(* the threshold prop changes.                                             *)
(***************************************************************************)
Scroll(y) ==
    /\ hasWindow /\ y # scrollY
    /\ scrollY' = y
    /\ isScrolled' = IF scrollListeners # << >>
                     THEN Scrolled(y, scrollListeners[Len(scrollListeners)])
                     ELSE isScrolled
    /\ lastAction' = "Scroll"
    /\ UNCHANGED motion
    /\ IF isScrolled' # isScrolled THEN Rendered(isOpen) ELSE UNCHANGED rendered
    /\ UNCHANGED <<phase, props, isOpen, currentRoute, activeId, bodyOverflow,
                   bodyPaddingRight, scrollbarWidth, activeElement, hash, wide,
                   panelInDom, subscriptions, initialBody, preOpenBody,
                   lastClicked, lastIntersecting, lastNavigation>>

\* deps [threshold]: remove the listener, handleScroll(), add the new listener
ScrollListenersAfter(t) == Registered(Removed(scrollListeners), t)

SetScrollThreshold(t) ==
    /\ phase = "mounted" /\ t # scrollThreshold
    /\ scrollThreshold' = t
    /\ scrollListeners' = ScrollListenersAfter(t)
    /\ isScrolled' = Scrolled(scrollY, t)
    /\ lastAction' = "SetScrollThreshold"
    /\ UNCHANGED motion /\ Rendered(isOpen)
    /\ UNCHANGED <<phase, links, closeOnRouteChange, trapFocus,
                   disableBodyScrollOnOpen, enableScrollSpy, onNavigate,
                   isOpen, currentRoute, activeId, browser, lockOriginal,
                   escapeListeners, tabListeners, observers, pendingTimers,
                   initialBody, preOpenBody, lastClicked, lastIntersecting,
                   lastNavigation>>

(***************************************************************************)
(* The parent renders the Navbar with another value of one prop.           *)
(***************************************************************************)
SetDisableBodyScroll(d) ==
    /\ phase = "mounted" /\ d # disableBodyScrollOnOpen
    /\ disableBodyScrollOnOpen' = d
    /\ Commit(isOpen, d, links, enableScrollSpy, activeElement)
    /\ lastAction' = "SetDisableBodyScroll"
    /\ UNCHANGED motion
    /\ UNCHANGED <<phase, links, scrollThreshold, closeOnRouteChange, trapFocus,
                   enableScrollSpy, onNavigate, state, scrollY, scrollbarWidth,
                   hash, wide, scrollListeners, pendingTimers,
                   initialBody, lastClicked, lastIntersecting, lastNavigation>>

SetCloseOnRouteChange(c) ==
    /\ phase = "mounted" /\ c # closeOnRouteChange
    /\ closeOnRouteChange' = c
    /\ Commit(isOpen, disableBodyScrollOnOpen, links, enableScrollSpy, activeElement)
    /\ lastAction' = "SetCloseOnRouteChange"
    /\ UNCHANGED motion
    /\ UNCHANGED <<phase, links, scrollThreshold, trapFocus, disableBodyScrollOnOpen,
                   enableScrollSpy, onNavigate, state, scrollY, scrollbarWidth,
                   hash, wide, scrollListeners, pendingTimers,
                   initialBody, lastClicked, lastIntersecting, lastNavigation>>

SetEnableScrollSpy(spy) ==
    /\ phase = "mounted" /\ spy # enableScrollSpy
    /\ enableScrollSpy' = spy
    /\ Commit(isOpen, disableBodyScrollOnOpen, links, spy, activeElement)
    /\ lastAction' = "SetEnableScrollSpy"
    /\ UNCHANGED motion
    /\ UNCHANGED <<phase, links, scrollThreshold, closeOnRouteChange, trapFocus,
                   disableBodyScrollOnOpen, onNavigate, state, scrollY,
                   scrollbarWidth, hash, wide, scrollListeners, pendingTimers,
                   initialBody, lastClicked, lastIntersecting, lastNavigation>>

\* A new links array (the same links or others).  The route effect, deps
\* [links], runs again; an anchor whose link is gone leaves the document.
SetLinks(ls) ==
    /\ phase = "mounted"
    /\ links' = ls
    /\ currentRoute' = InitialRoute(hash, ls)
    /\ Commit(isOpen, disableBodyScrollOnOpen, ls, enableScrollSpy,
              IF activeElement \in PanelElements(links) \ PanelElements(ls)
              THEN "body" ELSE activeElement)
    /\ lastAction' = "SetLinks"
    /\ UNCHANGED motion
    /\ UNCHANGED <<phase, scrollThreshold, closeOnRouteChange, trapFocus,
                   disableBodyScrollOnOpen, enableScrollSpy, onNavigate,
                   isOpen, isScrolled, activeId, scrollY, scrollbarWidth,
                   hash, wide, scrollListeners, pendingTimers,
                   initialBody, lastClicked, lastIntersecting, lastNavigation>>

(***************************************************************************)
(* The IntersectionObserver of section id calls back with its queued       *)
(* entries, oldest first: entries[i] is isIntersecting of the i-th.  The   *)
(* callback reads entries[0] only.                                         *)
(***************************************************************************)
ReportedEntry(entries) == entries[1]

ObserverReport(id, entries) ==
    /\ phase = "mounted"
    /\ \E i \in 1..Len(observers) : observers[i] = id
    /\ activeId' = IF ReportedEntry(entries) THEN id ELSE activeId
    /\ lastIntersecting' = IF \E i \in 1..Len(entries) : entries[i]
                         THEN id ELSE lastIntersecting
    /\ lastAction' = "ObserverReport"
    /\ UNCHANGED motion
    /\ IF activeId' # activeId THEN Rendered(isOpen) ELSE UNCHANGED rendered
    /\ UNCHANGED <<phase, props, isOpen, currentRoute, isScrolled, browser,
                   subscriptions, initialBody, preOpenBody, lastClicked,
                   lastNavigation>>

\* The user switches the reduce-motion preference of the system.  Nothing
\* listens to the media query: no render follows.
MotionPreferenceChange ==
    /\ hasWindow
    /\ reduceMotion' = ~reduceMotion
    /\ lastAction' = "MotionPreferenceChange"
    /\ UNCHANGED <<phase, props, state, browser, subscriptions,
                   initialBody, preOpenBody, lastClicked, lastIntersecting,
                   lastNavigation, hasWindow, animateDuration, rendered>>

(***************************************************************************)
(* Unmount: every effect's cleanup runs, the component's elements leave    *)
(* the document.  The timers are not cleared.                              *)
(***************************************************************************)
Unmount ==
    /\ phase = "mounted"
    /\ phase' = "unmounted"
    /\ UseLockBodyScroll(FALSE, disableBodyScrollOnOpen)
    /\ scrollListeners' = Removed(scrollListeners)
    /\ escapeListeners' = Removed(escapeListeners)
    /\ tabListeners' = Removed(tabListeners)
    /\ observers' = UseScrollSpyObservers(links, FALSE)
    /\ panelInDom' = FALSE
    /\ activeElement' = IF activeElement \in PanelElements(links) \cup {"toggle"}
                        THEN "body" ELSE activeElement
    /\ lastAction' = "Unmount"
    /\ UNCHANGED <<motion, rendered>>
    /\ UNCHANGED <<props, state, scrollY, scrollbarWidth, hash, wide, pendingTimers,
                   initialBody, preOpenBody, lastClicked, lastIntersecting,
                   lastNavigation>>

(***************************************************************************)
(* The component with every event of its environment.                      *)
(***************************************************************************)
Next ==
    \/ Mount
    \/ ToggleClick
    \/ EscapeKey
    \/ BackdropClick
    \/ CloseButtonClick
    \/ \E link \in NavLink, inPanel \in BOOLEAN : LinkClick(link, inPanel)
    \/ \E shift \in BOOLEAN : TabKey(shift)
    \/ TimerFire
    \/ ExitComplete
    \/ Resize
    \/ \E y \in ScrollPositions : Scroll(y)
    \/ \E t \in Thresholds : SetScrollThreshold(t)
    \/ \E d \in BOOLEAN : SetDisableBodyScroll(d)
    \/ \E c \in BOOLEAN : SetCloseOnRouteChange(c)
    \/ \E spy \in BOOLEAN : SetEnableScrollSpy(spy)
    \/ \E ls \in LinkLists : SetLinks(ls)
    \/ \E id \in LinkIds, entries \in Entries : ObserverReport(id, entries)
    \/ MotionPreferenceChange
    \/ Unmount

Spec == Init /\ [][Next]_vars

(***************************************************************************)
(* Specifications.  The hooks read disjoint parts of the state, so each    *)
(* specification lets the props and events of one concern vary and holds   *)
(* fixed what that concern neither reads nor writes.                       *)
(***************************************************************************)
FixedScroll == scrollThreshold = 0 /\ scrollY = 0
FixedBody ==
    /\ bodyOverflow = "scroll" /\ bodyPaddingRight = "8px" /\ scrollbarWidth = 15
    /\ disableBodyScrollOnOpen = TRUE
FixedLinks == links = <<Hero, About>> /\ hash = ""
FixedSpy == enableScrollSpy = FALSE /\ onNavigate = FALSE
FixedMotion == hasWindow = TRUE /\ reduceMotion = FALSE /\ animateDuration = 300

\* The body-scroll lock: opening, closing, the lock option and unmount.
InitLock ==
    /\ Init /\ FixedMotion
    /\ FixedScroll /\ FixedLinks /\ FixedSpy /\ wide = FALSE

NextLock ==
    \/ Mount
    \/ ToggleClick
    \/ EscapeKey
    \/ BackdropClick
    \/ CloseButtonClick
    \/ \E link \in NavLink : LinkClick(link, TRUE)
    \/ \E d \in BOOLEAN : SetDisableBodyScroll(d)
    \/ TimerFire
    \/ ExitComplete
    \/ Unmount

SpecLock == InitLock /\ [][NextLock]_vars

\* The scrolled state: scrolling and the threshold prop, across re-renders
\* caused by opening and closing.
InitScroll ==
    /\ Init /\ FixedMotion
    /\ FixedBody /\ FixedLinks /\ FixedSpy
    /\ closeOnRouteChange = TRUE /\ trapFocus = TRUE /\ wide = FALSE

NextScroll ==
    \/ Mount
    \/ ToggleClick
    \/ CloseButtonClick
    \/ ExitComplete
    \/ TimerFire
    \/ \E y \in ScrollPositions : Scroll(y)
    \/ \E t \in Thresholds : SetScrollThreshold(t)
    \/ Unmount

SpecScroll == InitScroll /\ [][NextScroll]_vars

\* The open flag, the keyboard and focus: every event that opens or closes
\* the panel or moves focus, with the link list and the viewport changing.
InitFocus ==
    /\ Init /\ FixedMotion
    /\ FixedScroll /\ FixedBody /\ FixedSpy /\ hash = ""

NextFocus ==
    \/ Mount
    \/ ToggleClick
    \/ EscapeKey
    \/ BackdropClick
    \/ CloseButtonClick
    \/ \E link \in NavLink, inPanel \in BOOLEAN : LinkClick(link, inPanel)
    \/ \E shift \in BOOLEAN : TabKey(shift)
    \/ TimerFire
    \/ ExitComplete
    \/ Resize
    \/ \E c \in BOOLEAN : SetCloseOnRouteChange(c)
    \/ \E ls \in LinkLists : SetLinks(ls)
    \/ Unmount

SpecFocus == InitFocus /\ [][NextFocus]_vars

\* The active link: link clicks and scroll-spy, in every configuration of
\* closeOnRouteChange, enableScrollSpy and onNavigate, on either side of the
\* breakpoint (inline anchors above it, the panel's anchors below it).
InitNav ==
    /\ Init /\ FixedMotion
    /\ FixedScroll /\ FixedBody /\ trapFocus = TRUE

NextNav ==
    \/ Mount
    \/ ToggleClick
    \/ CloseButtonClick
    \/ \E link \in NavLink, inPanel \in BOOLEAN : LinkClick(link, inPanel)
    \/ TimerFire
    \/ ExitComplete
    \/ \E spy \in BOOLEAN : SetEnableScrollSpy(spy)
    \/ \E id \in LinkIds, entries \in Entries : ObserverReport(id, entries)
    \/ Unmount

SpecNav == InitNav /\ [][NextNav]_vars

\* Scroll-spy: observer callbacks, with the link list and the flag changing.
InitSpy ==
    /\ Init /\ FixedMotion
    /\ FixedScroll /\ FixedBody /\ hash = "" /\ onNavigate = FALSE
    /\ closeOnRouteChange = TRUE /\ trapFocus = TRUE /\ wide = FALSE

NextSpy ==
    \/ Mount
    \/ ToggleClick
    \/ CloseButtonClick
    \/ \E link \in NavLink : LinkClick(link, TRUE)
    \/ TimerFire
    \/ ExitComplete
    \/ \E spy \in BOOLEAN : SetEnableScrollSpy(spy)
    \/ \E ls \in LinkLists : SetLinks(ls)
    \/ \E id \in LinkIds, entries \in Entries : ObserverReport(id, entries)
    \/ Unmount

SpecSpy == InitSpy /\ [][NextSpy]_vars

\* The subscriptions of the four effects: every dependency change (threshold,
\* open flag, link list, scroll-spy flag) and unmount.
InitSubs ==
    /\ Init /\ FixedMotion
    /\ FixedBody /\ hash = "" /\ onNavigate = FALSE /\ scrollY = 0
    /\ closeOnRouteChange = TRUE /\ wide = FALSE

NextSubs ==
    \/ Mount
    \/ ToggleClick
    \/ EscapeKey
    \/ CloseButtonClick
    \/ TimerFire
    \/ ExitComplete
    \/ \E t \in Thresholds : SetScrollThreshold(t)
    \/ \E spy \in BOOLEAN : SetEnableScrollSpy(spy)
    \/ \E ls \in LinkLists : SetLinks(ls)
    \/ Unmount

SpecSubs == InitSubs /\ [][NextSubs]_vars

\* Rendering and motion: on a server or in a browser, with the reduce-motion
\* preference and the configured duration varying, across the renders caused
\* by scrolling, opening and closing.
InitMotion ==
    /\ Init
    /\ FixedBody /\ FixedLinks /\ FixedSpy
    /\ closeOnRouteChange = TRUE /\ trapFocus = TRUE /\ wide = FALSE

NextMotion ==
    \/ Mount
    \/ ToggleClick
    \/ EscapeKey
    \/ CloseButtonClick
    \/ TimerFire
    \/ ExitComplete
    \/ \E y \in ScrollPositions : Scroll(y)
    \/ MotionPreferenceChange
    \/ Unmount

SpecMotion == InitMotion /\ [][NextMotion]_vars

\* Focus with a link list that does not change and a panel that leaves at
\* once (animateDuration 0), so that it can be reopened while a refocus timer
\* is pending.
InitTrap ==
    /\ Init
    /\ FixedScroll /\ FixedBody /\ FixedSpy /\ FixedLinks
    /\ hasWindow = TRUE /\ reduceMotion = FALSE /\ animateDuration = 0
    /\ wide = FALSE

NextTrap ==
    \/ Mount
    \/ ToggleClick
    \/ EscapeKey
    \/ BackdropClick
    \/ CloseButtonClick
    \/ \E link \in NavLink : LinkClick(link, TRUE)
    \/ \E shift \in BOOLEAN : TabKey(shift)
    \/ TimerFire
    \/ ExitComplete
    \/ Unmount

SpecTrap == InitTrap /\ [][NextTrap]_vars

(***************************************************************************)
(* Properties.                                                             *)
(***************************************************************************)
BodyStyle == [overflow |-> bodyOverflow, paddingRight |-> bodyPaddingRight]

\* the scrollbar widths of ScrollbarWidths as CSS lengths
WidthAsLength == IF scrollbarWidth = 0 THEN "0px" ELSE "15px"

\* C1: with disableBodyScrollOnOpen enabled, while the panel is open the body's
\* overflow is "hidden" and its padding-right is the measured scrollbar width;
\* once the panel is closed again both are exactly what they were immediately
\* before that open.
C1_LockOnOpenRestoreOnClose ==
    (phase = "mounted" /\ disableBodyScrollOnOpen) =>
        /\ isOpen => (bodyOverflow = "hidden" /\ bodyPaddingRight = WidthAsLength)
        /\ ~isOpen => BodyStyle = preOpenBody

\* C1 witness: the panel was open under the lock and has just been closed
\* (it is still leaving the document), and the body is back at a style that
\* is not the lock's.
C1_Witness ==
    /\ phase = "mounted" /\ disableBodyScrollOnOpen /\ ~isOpen /\ panelInDom
    /\ lastAction = "BackdropClick" /\ pendingTimers = 1
    /\ lockOriginal = << >>
    /\ BodyStyle = [overflow |-> "scroll", paddingRight |-> "8px"]
    /\ scrollbarWidth = 15

\* C2: whenever the panel is closed or the component is unmounted, the body's
\* overflow and padding-right are those from before the first open and no
\* captured value is held; a held capture is always that first style, never
\* the lock's own write.
C2_LockIdempotent ==
    /\ (phase # "mounted" \/ ~isOpen) =>
           (BodyStyle = initialBody /\ lockOriginal = << >>)
    /\ Len(lockOriginal) <= 1
    /\ lockOriginal # << >> =>
           (lockOriginal[1] = initialBody /\ Lock(isOpen, disableBodyScrollOnOpen))

\* C2 witness: unmounted while the panel was open and locked, with a refocus
\* timer of an earlier close still pending and the body back at its first style.
C2_Witness ==
    /\ phase = "unmounted" /\ lastAction = "Unmount"
    /\ isOpen /\ disableBodyScrollOnOpen
    /\ initialBody = [overflow |-> "scroll", paddingRight |-> "8px"]
    /\ BodyStyle = initialBody
    /\ pendingTimers > 0

\* among the rendered links, link and no other is rendered as active
OnlyActive(link) ==
    /\ IsActive(link)
    /\ \A i \in 1..Len(links) : IsActive(links[i]) => links[i] = link

\* C3 as stated: in every configuration with closeOnRouteChange enabled,
\* scroll-spy on or off, a link click leaves the panel closed and the clicked
\* link rendered as active.
C3_ClickActivatesInEveryConfiguration ==
    [][\A link \in NavLink, inPanel \in BOOLEAN :
          (LinkClick(link, inPanel) /\ closeOnRouteChange) =>
              (~isOpen' /\ IsActive(link)')]_vars

\* C3 amended: in every configuration with closeOnRouteChange enabled a link
\* click leaves the panel closed; with scroll-spy disabled the clicked link,
\* and no other, is then rendered as active; with scroll-spy enabled the click
\* leaves the active link as it was.
C3_ClickClosesAndActivatesWithoutScrollSpy ==
    [][\A link \in NavLink, inPanel \in BOOLEAN :
          (LinkClick(link, inPanel) /\ closeOnRouteChange) =>
              /\ ~isOpen'
              /\ ~enableScrollSpy => OnlyActive(link)'
              /\ enableScrollSpy => ActiveLink' = ActiveLink]_vars

\* C3 witness: the second link was clicked in the open panel with
\* closeOnRouteChange enabled and scroll-spy disabled; the panel is closed and
\* that link is the active one.
C3_Witness ==
    /\ phase = "mounted" /\ lastAction = "LinkClickCloses" /\ lastClicked = "about"
    /\ closeOnRouteChange /\ ~enableScrollSpy
    /\ ~isOpen /\ panelInDom /\ pendingTimers = 1
    /\ OnlyActive(About) /\ ~IsActive(Hero)

\* C4: Escape pressed while the panel is open sets the open flag to false,
\* whatever trapFocus is; pressed while the panel is closed (or the component
\* is not mounted) it changes no state, moves no focus, schedules no timer and
\* touches neither the body nor any subscription.
C4_EscapeClosesOnlyWhenOpen ==
    [][EscapeKey =>
          IF phase = "mounted" /\ isOpen
          THEN ~isOpen'
          ELSE UNCHANGED <<phase, props, state, browser, subscriptions>>]_vars

\* C4 witness: without focus trap, Escape was the last event; the panel is
\* closed and still leaving the document, with the one refocus timer pending.
C4_Witness ==
    /\ phase = "mounted" /\ lastAction = "EscapeKey" /\ ~trapFocus
    /\ ~isOpen /\ panelInDom /\ pendingTimers = 1
    /\ escapeListeners = <<FALSE>>
    /\ lastClicked = "" /\ activeElement = "toggle"

\* C5: while the component is mounted (after mount, after every scroll event
\* and every change of the threshold) the navbar is in the scrolled state
\* exactly when the scroll position is strictly above the threshold.
C5_ScrolledIffAboveThreshold ==
    phase = "mounted" =>
        /\ isScrolled <=> scrollY > scrollThreshold
        /\ scrollY = scrollThreshold => ~isScrolled

\* C5 witness: a scroll event has just brought the page to exactly the
\* threshold, which is not 0, and the navbar is not scrolled.
C5_Witness ==
    /\ phase = "mounted" /\ lastAction = "Scroll"
    /\ scrollThreshold = 1 /\ scrollY = scrollThreshold /\ ~isScrolled
    /\ scrollListeners = <<1>>

\* C6: with scroll-spy enabled the active link is the section whose observer
\* most recently reported that it is intersecting (none before the first such
\* report), and a callback without any intersecting entry changes nothing.
C6_MostRecentIntersectingWins ==
    /\ [](phase = "mounted" /\ enableScrollSpy => ActiveLink = lastIntersecting)
    /\ [][\A id \in SectionElements, entries \in Entries :
            (ObserverReport(id, entries) /\ \A i \in 1..Len(entries) : ~entries[i])
                => activeId' = activeId]_vars

\* C6 shows on: the observer of the first link's section calls back, after
\* mount with scroll-spy enabled, with two entries, not intersecting and then
\* intersecting; no link is active.
C6_BatchedEntriesSeen ==
    /\ phase = "mounted" /\ enableScrollSpy /\ lastAction = "ObserverReport"
    /\ lastIntersecting = "hero" /\ activeId = ""

\* C7: with scroll-spy disabled, from mount until a link is clicked, the links
\* rendered as active are exactly those whose href is the location hash when
\* there is a hash, and the first link alone when there is none.
C7_InitialActiveLink ==
    (phase = "mounted" /\ ~enableScrollSpy /\ lastClicked = "") =>
        IF hash # ""
        THEN \A i \in 1..Len(links) : IsActive(links[i]) <=> links[i].href = hash
        ELSE Len(links) > 0 => OnlyActive(links[1])

\* C7 witness: mounted with the hash of the second link and scroll-spy
\* disabled; the second link is active and the first is not.
C7_Witness ==
    /\ phase = "mounted" /\ lastAction = "Mount" /\ ~enableScrollSpy
    /\ hash = "#about" /\ links = <<Hero, About>>
    /\ OnlyActive(About) /\ ~IsActive(Hero)

FirstFocusable == PanelFocusables(links)[1]
LastFocusable == PanelFocusables(links)[Len(PanelFocusables(links))]

\* C8: with trapFocus enabled, opening the panel moves focus to the panel's
\* first focusable element; while it is open, Tab on its last focusable
\* element moves focus to the first and Shift+Tab on the first to the last,
\* and no Tab or Shift+Tab moves focus from inside the panel to outside it.
C8_FocusTrapped ==
    [][/\ (ToggleClick /\ trapFocus /\ ~isOpen) => activeElement' = FirstFocusable'
       /\ \A shift \in BOOLEAN :
            (TabKey(shift) /\ trapFocus /\ isOpen) =>
                /\ activeElement' \in PanelElements(links)
                /\ (~shift /\ activeElement = LastFocusable) =>
                       activeElement' = FirstFocusable
                /\ (shift /\ activeElement = FirstFocusable) =>
                       activeElement' = LastFocusable]_vars

\* C8 shows on: the panel is open with trapFocus enabled, the trap holds a
\* last element that is no longer the panel's last, and Tab has just moved
\* focus out of the panel.
C8_TabLeftPanel ==
    /\ phase = "mounted" /\ isOpen /\ trapFocus /\ lastAction = "TabKey"
    /\ tabListeners # << >> /\ tabListeners[1].last # LastFocusable
    /\ activeElement = "outside"

\* C9: the open flag is false until the component is mounted and right after
\* mount; it goes from false to true only in a click on the toggle button, and
\* from true to false only in an Escape key press, a backdrop click, a
\* close-button click or a link click with closeOnRouteChange enabled.  A
\* backdrop click always leaves the panel closed, and a link click with
\* closeOnRouteChange disabled leaves the flag as it was.
C9_OpenFlagTransitions ==
    /\ [](phase = "init" => ~isOpen)
    /\ [][/\ Mount => ~isOpen'
          /\ (~isOpen /\ isOpen') => lastAction' = "ToggleClick"
          /\ (isOpen /\ ~isOpen') =>
                \/ lastAction' \in {"EscapeKey", "BackdropClick", "CloseButtonClick"}
                \/ lastAction' = "LinkClickCloses" /\ closeOnRouteChange
          /\ (BackdropClick /\ isOpen) => ~isOpen'
          /\ \A link \in NavLink, inPanel \in BOOLEAN :
                (LinkClick(link, inPanel) /\ ~closeOnRouteChange) =>
                    isOpen' = isOpen]_vars

\* C9 witness: with closeOnRouteChange disabled a link of the open panel has
\* just been clicked; the panel is still open and no refocus timer is pending.
C9_Witness ==
    /\ phase = "mounted" /\ lastAction = "LinkClick" /\ lastClicked = "about"
    /\ ~closeOnRouteChange /\ isOpen /\ panelInDom /\ pendingTimers = 0
    /\ currentRoute = About.href

\* C10: when a link click with closeOnRouteChange enabled has closed the open
\* panel and the next event is the refocus timer coming due, with the
\* component still mounted, the timer fires with the open flag false and
\* leaves focus on the toggle button.
C10_RefocusAfterLinkClick ==
    [][(lastAction = "LinkClickCloses" /\ phase = "mounted" /\ TimerFire) =>
          (~isOpen /\ activeElement' = "toggle")]_vars

\* C10 shows on: the panel was opened below the breakpoint, the viewport was
\* then widened, a link of the panel was clicked and closed it, and the only
\* refocus timer has fired; focus is still on the clicked link.
C10_FocusNotReturned ==
    /\ phase = "mounted" /\ lastAction = "TimerFire" /\ pendingTimers = 0
    /\ wide /\ ~isOpen /\ panelInDom /\ closeOnRouteChange
    /\ lastClicked = "about" /\ activeElement = "about"

\* the section a link points at: the element its href "#id" names, if any
TargetSection(link) ==
    IF link.href = "#" \o link.id /\ link.id \in SectionElements
    THEN <<link.id>> ELSE << >>

\* C11: a link click performs at most one navigation action.  With a
\* navigation callback, the callback is invoked once with the clicked link's
\* href and nothing is scrolled, scroll-spy enabled or not; without a callback
\* and with scroll-spy enabled the link's target section (when the document
\* has it) is scrolled into view; without either, nothing happens.
C11_AtMostOneNavigation ==
    [][\A link \in NavLink, inPanel \in BOOLEAN :
          LinkClick(link, inPanel) =>
              /\ Len(lastNavigation'.callback) + Len(lastNavigation'.scrolled) <= 1
              /\ onNavigate =>
                    /\ lastNavigation'.callback = <<link.href>>
                    /\ lastNavigation'.scrolled = << >>
              /\ (~onNavigate /\ enableScrollSpy) =>
                    /\ lastNavigation'.callback = << >>
                    /\ lastNavigation'.scrolled = TargetSection(link)
              /\ (~onNavigate /\ ~enableScrollSpy) =>
                    lastNavigation' = NoNavigation]_vars

\* C11 witness: with a callback and scroll-spy both present the second link
\* has just been clicked; the callback got its href and nothing was scrolled.
C11_Witness ==
    /\ phase = "mounted" /\ lastAction \in {"LinkClick", "LinkClickCloses"}
    /\ lastClicked = "about" /\ onNavigate /\ enableScrollSpy
    /\ lastNavigation = [callback |-> <<"#about">>, scrolled |-> << >>]

\* no id is observed twice
NoDuplicate(seq) == \A i, j \in 1..Len(seq) : seq[i] = seq[j] => i = j

\* C12: across mount, re-renders, changes of the threshold, the open flag, the
\* link list and the scroll-spy flag, and unmount, at most one subscription of
\* each kind is live: while mounted exactly one window scroll listener (of the
\* current threshold) and one document Escape listener (of the current open
\* flag), a panel Tab listener exactly while the panel is open with trapFocus,
\* and with scroll-spy enabled exactly one observer per link whose element
\* exists, none otherwise; before mount and after unmount none remain.
C12_OneLiveSubscriptionSet ==
    /\ Len(scrollListeners) <= 1 /\ Len(escapeListeners) <= 1
    /\ Len(tabListeners) <= 1 /\ NoDuplicate(observers)
    /\ phase = "mounted" =>
          /\ scrollListeners = <<scrollThreshold>>
          /\ escapeListeners = <<isOpen>>
          /\ Len(tabListeners) = (IF isOpen /\ trapFocus THEN 1 ELSE 0)
          /\ \A id \in {"hero", "about", "ghost"} :
                (\E i \in 1..Len(observers) : observers[i] = id) <=>
                    /\ enableScrollSpy
                    /\ id \in SectionElements
                    /\ \E k \in 1..Len(links) : links[k].id = id
    /\ phase # "mounted" =>
          /\ scrollListeners = << >> /\ escapeListeners = << >>
          /\ tabListeners = << >> /\ observers = << >>

\* C12 witness: unmounted while the panel was open with trapFocus and
\* scroll-spy enabled, after the threshold had been changed: nothing is left.
C12_Witness ==
    /\ phase = "unmounted" /\ lastAction = "Unmount"
    /\ isOpen /\ trapFocus /\ enableScrollSpy /\ links = <<Hero, Ghost>>
    /\ scrollThreshold = 1 /\ isScrolled = FALSE
    /\ subscriptions = << << >>, << >>, << >>, << >>, << >>, 0 >>

\* C13: with scroll-spy enabled, a link whose id names no element of the
\* document has no observer and never becomes the active link; every link
\* whose element exists has one; an empty link list has none.  Rendering and
\* the effect complete for such lists (the component reaches "mounted").
C13_MissingTargetsSkipped ==
    /\ activeId \notin LinkIds \ SectionElements
    /\ (phase = "mounted" /\ enableScrollSpy) =>
          /\ \A i \in 1..Len(observers) : observers[i] \in SectionElements
          /\ \A k \in 1..Len(links) :
                links[k].id \in SectionElements =>
                    \E i \in 1..Len(observers) : observers[i] = links[k].id
          /\ links = << >> => observers = << >>

\* C13 witness: scroll-spy is enabled for the links hero and ghost, only
\* hero is observed, and its observer has just made it the active link.
C13_Witness ==
    /\ phase = "mounted" /\ enableScrollSpy /\ lastAction = "ObserverReport"
    /\ links = <<Hero, Ghost>> /\ "ghost" \notin SectionElements
    /\ observers = <<"hero">> /\ activeId = "hero" /\ IsActive(Hero)

\* C14: rendered where there is no window (no effect ever runs), the component
\* stays as the first render left it: not scrolled, panel closed, the
\* configured duration (the preference is not read), no subscription, no
\* timer, body style and focus untouched.
C14_ServerRenderDefault ==
    ~hasWindow =>
        /\ phase = "init" /\ ~isScrolled /\ ~isOpen /\ ~panelInDom
        /\ currentRoute = "" /\ activeId = ""
        /\ duration = Seconds(animateDuration)
        /\ subscriptions = << << >>, << >>, << >>, << >>, << >>, 0 >>
        /\ BodyStyle = initialBody /\ activeElement = "body"

\* C14 witness: rendered without a window for a user who prefers reduced
\* motion, at a scroll position above the threshold: not scrolled, closed,
\* duration 300/1000.
C14_Witness ==
    /\ ~hasWindow /\ reduceMotion /\ phase = "init"
    /\ scrollY > scrollThreshold /\ ~isScrolled /\ ~isOpen
    /\ animateDuration = 300 /\ duration = [num |-> 300, den |-> 1000]

\* the duration the preference and the configuration call for, as a fraction
HonoursPreference(d) ==
    IF reduceMotion THEN d.num = 0 ELSE d.num * 1000 = animateDuration * d.den

\* C15: in a browser, every animation that starts runs with duration 0 when
\* the user's reduce-motion preference is set and with animateDuration / 1000
\* seconds otherwise: top bar, logo and inline links when the scrolled state
\* changes, backdrop and panel when the panel opens and when it closes.
C15_DurationHonoursPreference ==
    [][/\ (isScrolled' # isScrolled) => HonoursPreference(duration)'
       /\ (isOpen' # isOpen) => HonoursPreference(panelDuration)']_vars

\* C15 shows on: the preference was switched on while the panel was open, and
\* Escape has just closed it: backdrop and panel leave with the duration of
\* the render that opened them, 300/1000.
C15_PanelLeavesAnimated ==
    /\ phase = "mounted" /\ lastAction = "EscapeKey" /\ reduceMotion
    /\ ~isOpen /\ panelInDom /\ duration = Zero
    /\ panelDuration = [num |-> 300, den |-> 1000]

\* C16: while the panel is open with trapFocus enabled (the opening itself
\* moves focus to the panel's first focusable element), focus is on an
\* element inside the panel, also when the panel has been closed and
\* reopened with the refocus timer of that close still pending.
C16_FocusStaysInPanel ==
    (phase = "mounted" /\ isOpen /\ trapFocus) =>
        activeElement \in PanelElements(links)

\* C16 shows on: the panel is open with trapFocus enabled and a refocus
\* timer scheduled by an earlier close has just fired: focus is on the
\* toggle button, outside the panel.
C16_TimerStoleFocus ==
    /\ phase = "mounted" /\ isOpen /\ trapFocus /\ lastAction = "TimerFire"
    /\ pendingTimers = 0 /\ activeElement = "toggle"

\* C17: with scroll-spy disabled, a link that was clicked and is rendered as
\* active stays active through every step that is not a link click and
\* leaves the component mounted, the hash as it was and that link in the
\* list: re-renders included, also one with a new array of the same links.
C17_ClickedLinkStaysActive ==
    [][\A link \in NavLink :
          (/\ phase = "mounted" /\ phase' = "mounted"
           /\ ~enableScrollSpy /\ ~enableScrollSpy'
           /\ lastClicked = link.id /\ IsActive(link)
           /\ lastClicked' = lastClicked
           /\ lastAction' \notin {"LinkClick", "LinkClickCloses"}
           /\ hash' = hash
           /\ \E k \in 1..Len(links') : links'[k] = link)
          => IsActive(link)']_vars

\* C17 shows on: without a hash, the second link was clicked and the parent
\* has then rendered the Navbar with an array of the same two links: the
\* first link is active again.
C17_ActiveLinkReset ==
    /\ phase = "mounted" /\ ~enableScrollSpy /\ lastAction = "SetLinks"
    /\ hash = "" /\ links = <<Hero, About>> /\ lastClicked = "about"
    /\ currentRoute = Hero.href /\ ~IsActive(About) /\ IsActive(Hero)

\* C18: with scroll-spy enabled the active link is what the observers'
\* callbacks set and nothing else: no link is active while no intersecting
\* entry has been delivered, whatever the hash at mount, and no step other
\* than an observer callback (a link click in particular) changes it.
C18_ActiveFromObserversOnly ==
    /\ []((phase = "mounted" /\ enableScrollSpy /\ lastIntersecting = "") =>
            /\ ActiveLink = ""
            /\ \A k \in 1..Len(links) : ~IsActive(links[k]))
    /\ [][(enableScrollSpy /\ enableScrollSpy' /\ lastAction' # "ObserverReport")
            => ActiveLink' = ActiveLink]_vars

\* C18 witness: mounted with the hash of the second link and scroll-spy
\* enabled, the first section was reported intersecting and the second link
\* has just been clicked: the first link is still the active one.
C18_Witness ==
    /\ phase = "mounted" /\ enableScrollSpy /\ hash = "#about"
    /\ lastAction \in {"LinkClick", "LinkClickCloses"} /\ lastClicked = "about"
    /\ currentRoute = "#about" /\ activeId = "hero"
    /\ IsActive(Hero) /\ ~IsActive(About)

\* the step is a close request: closeMenu is called
CloseRequest ==
    \/ EscapeKey /\ EscapeCloses
    \/ BackdropClick
    \/ CloseButtonClick
    \/ \E link \in NavLink, inPanel \in BOOLEAN :
            LinkClick(link, inPanel) /\ closeOnRouteChange

\* C19: every close request schedules one more refocus timer, and only a
\* timer coming due takes one away (no step cancels one); a timer that
\* fires while the component is mounted leaves focus on the toggle button;
\* a link click with closeOnRouteChange enabled while the panel is closed, an
\* inline link included, leaves the open flag false and schedules its timer
\* like any other.
C19_EveryCloseRefocuses ==
    [][/\ CloseRequest => pendingTimers' = pendingTimers + 1
       /\ pendingTimers' < pendingTimers =>
             (lastAction' = "TimerFire" /\ pendingTimers' = pendingTimers - 1)
       /\ (TimerFire /\ phase = "mounted") => activeElement' = "toggle"
       /\ \A link \in NavLink, inPanel \in BOOLEAN :
             (LinkClick(link, inPanel) /\ closeOnRouteChange /\ ~isOpen) =>
                 ~isOpen']_vars

\* C19 shows on: at or above the breakpoint an inline link was clicked with
\* closeOnRouteChange enabled and the panel closed, and its timer has fired:
\* the open flag is false and focus is still on the clicked anchor.
C19_InlineClickKeepsFocus ==
    /\ phase = "mounted" /\ wide /\ closeOnRouteChange
    /\ lastAction = "TimerFire" /\ pendingTimers = 0
    /\ ~isOpen /\ ~panelInDom /\ lastClicked = "about"
    /\ activeElement = "outside"

\* C20: a refocus timer that fires after the component was unmounted moves
\* no focus, changes no component state and no body style, and leaves every
\* subscription as unmount left it; only the timer itself is gone.
C20_TimerAfterUnmountHarmless ==
    [][(TimerFire /\ phase = "unmounted") =>
          /\ UNCHANGED <<activeElement, state, bodyOverflow, bodyPaddingRight>>
          /\ UNCHANGED <<scrollListeners, lockOriginal, escapeListeners,
                         tabListeners, observers, panelInDom, phase>>
          /\ pendingTimers' = pendingTimers - 1]_vars

\* C20 witness: below the breakpoint the component was unmounted with the
\* body locked and a timer pending, and the timer has fired: the body style
\* is the one before the first open and focus is not on the toggle button.
C20_Witness ==
    /\ phase = "unmounted" /\ lastAction = "TimerFire" /\ pendingTimers = 0
    /\ ~wide /\ isOpen /\ disableBodyScrollOnOpen
    /\ activeElement = "body" /\ BodyStyle = initialBody

====
